---- MODULE Spec2Model ----
(***************************************************************************)
(* Model of the Ultimaker sensor platform (sensor.py): one throttled       *)
(* poller, UltimakerStatusData, shared by the UltimakerStatusSensor        *)
(* entities that async_setup_platform creates.                             *)
(*                                                                         *)
(* Python values are tagged tuples, so that None, strings, integers,       *)
(* booleans and lists can be stored in one variable and compared.          *)
(* Time is in whole seconds.                                               *)
(***************************************************************************)
EXTENDS Integers, Sequences, FiniteSets, TLC

VARIABLES
    resources, \* config[CONF_RESOURCES]: the sensor types configured
    now,       \* wall clock, utcnow(), in seconds
    throttle,  \* Throttle's record of the last permitted call (throttle[1])
    data,      \* UltimakerStatusData._data
    pc,        \* where each caller of UltimakerStatusData.async_update is
    started,   \* when the caller's run in flight issued its GET
    state,     \* UltimakerStatusSensor._state of each sensor
    err,       \* the exception the sensor's last async_update raised
    returned,  \* the call that returned last, and how
    gets       \* start times of the GETs issued so far

vars == <<resources, now, throttle, data, pc, started, state, err, returned, gets>>

----------------------------------------------------------------------------
(* Bounds of the model *)

MaxTime == 22

----------------------------------------------------------------------------
(* Python values *)

None == <<"None">>
PyStr(s) == <<"str", s>>
PyInt(n) == <<"int", n>>
PyBool(b) == <<"bool", b>>
PyList(l) == <<"list", l>>

----------------------------------------------------------------------------
(* Program constants *)

MIN_TIME_BETWEEN_UPDATES == 10

TIMEOUT == 5

SENSOR_TYPES ==
    {"3dprinttotal", "3dprinttimeelapsed", "3dprintpercentage", "3dprintactive"}

\* the entities there can be: at most one per sensor type
Sensors == SENSOR_TYPES

\* the default of CONF_RESOURCES: list(SENSOR_TYPES)
DefaultResources == SENSOR_TYPES

\* configurations with a single resource
SingleResources == {{t} : t \in SENSOR_TYPES}

Callers == {"setup"} \cup Sensors

----------------------------------------------------------------------------
(* The printer's answers: arrays of print jobs *)

Absent == <<>>

Keys(e, t) ==
    (IF e = Absent THEN {} ELSE {"time_elapsed"}) \cup
    (IF t = Absent THEN {} ELSE {"time_total"})

\* a JSON object with the fields given (Absent: the key is not there,
\* None: the key is null)
Job(e, t) == [k \in Keys(e, t) |-> IF k = "time_elapsed" THEN e ELSE t]

ElapsedValues == {Absent, None, PyInt(1740), PyInt(90000)}

TotalValues == {Absent, None, PyInt(0), PyInt(6000)}

Jobs == {Job(e, t) : e \in ElapsedValues, t \in TotalValues}

OtherJob == Job(PyInt(6000), PyInt(90000))

\* the arrays MapSpec draws from: idle, one job, and a second job behind a
\* first one with no fields or with both
Bodies ==
    {<<>>} \cup {<<j>> : j \in Jobs} \cup
    {<<j, OtherJob>> : j \in {Job(Absent, Absent), Job(PyInt(1740), PyInt(6000))}}

\* the arrays Spec draws from
PollBodies == {<<>>, <<Job(PyInt(1740), PyInt(6000))>>}

----------------------------------------------------------------------------
(* homeassistant.util.Throttle as applied to UltimakerStatusData.async_update *)

ThrottlePermitsInclusive(last, t) ==
    last = None \/ t - last[2] >= MIN_TIME_BETWEEN_UPDATES

\* force = not throttle[1]; otherwise utcnow() - throttle[1] > min_time
ThrottlePermits(last, t) ==
    last = None \/ t - last[2] > MIN_TIME_BETWEEN_UPDATES

----------------------------------------------------------------------------
(* UltimakerStatusData.async_update: what it leaves in _data *)

CacheKept == data

\* self._data = None in each except branch
CacheAfterFailure == None

\* self._data = await response.json(...)
CacheAfterParse(body) == PyList(body)

----------------------------------------------------------------------------
(* UltimakerStatusSensor.async_update: the value derived from the cache *)

Digits == <<"0", "1", "2", "3", "4", "5", "6", "7", "8", "9">>

\* a number below 100 as two decimal digits
TwoDigits(n) == Digits[(n \div 10) + 1] \o Digits[(n % 10) + 1]

\* time.strftime('%H:%M', time.gmtime(secs)): hour and minute of the day
StrfHM(secs) ==
    TwoDigits((secs \div 3600) % 24) \o ":" \o TwoDigits((secs \div 60) % 60)

\* the k for which the double (k / 100) * 100 is just below k
FloatShortfall == {29, 57, 58}

\* int((elapsed / total) * 100) in double arithmetic, total # 0: the quotient
\* is exact enough for the floor to be right unless 100 * elapsed / total is a
\* whole number k, and then the product is k or, for the k above, just below
PyPercent(elapsed, total) ==
    LET q == (100 * elapsed) \div total
    IN  IF (100 * elapsed) % total = 0 /\ q \in FloatShortfall THEN q - 1 ELSE q

Min(a, b) == IF a < b THEN a ELSE b

Returns(st) == [state |-> st, err |-> "none"]

Raises(st, e) == [state |-> st, err |-> e]

\* isprinting = len(printstatus) > 0
IsPrinting(jobs) == Len(jobs) > 0

\* 'k' in printstatus[0] and printstatus[0][k] is not None
HasValue(job, k) == k \in DOMAIN job /\ job[k] # None

\* the body of `if isprinting:`
FromFirstJob(type, st, job) ==
    IF type = "3dprinttimeelapsed" THEN
        IF HasValue(job, "time_elapsed")
        THEN Returns(PyStr(StrfHM(job["time_elapsed"][2])))
        ELSE Returns(st)
    ELSE IF type = "3dprinttotal" THEN
        IF HasValue(job, "time_total")
        THEN Returns(PyStr(StrfHM(job["time_total"][2])))
        ELSE Returns(st)
    ELSE IF type = "3dprintpercentage" THEN
        IF HasValue(job, "time_elapsed") /\ HasValue(job, "time_total")
        THEN IF job["time_total"][2] = 0
             THEN Raises(st, "ZeroDivisionError")
             ELSE Returns(PyInt(Min(PyPercent(job["time_elapsed"][2],
                                            job["time_total"][2]), 100)))
        ELSE Returns(st)
    ELSE Returns(st)

ActiveFlagOnlyWhenPrinting(type, st, isprinting) ==
    IF type = "3dprintactive" /\ isprinting THEN PyBool(TRUE) ELSE st

\* if self._type == '3dprintactive': self._state = isprinting
AfterActiveFlag(type, st, isprinting) ==
    IF type = "3dprintactive" THEN PyBool(isprinting) ELSE st

WhenIdleReset(type, st) ==
    Returns(IF type = "3dprintactive" THEN st ELSE None)

\* isprinting is False: nothing after the active flag runs
WhenIdle(type, st) == Returns(st)

OnNoDataReset(st) == Returns(None)

\* len(None) raises before anything is assigned
OnNoData(st) == Raises(st, "TypeError")

\* the sensor's part of async_update, from `printstatus = ...latest_data` on:
\* the new _state and the exception raised, if any
UpdateState(type, st, printstatus) ==
    IF printstatus = None THEN OnNoData(st)
    ELSE LET jobs == printstatus[2]
             isprinting == IsPrinting(jobs)
             st1 == AfterActiveFlag(type, st, isprinting)
         IN  IF isprinting
             THEN FromFirstJob(type, st1, jobs[1])
             ELSE WhenIdle(type, st1)

----------------------------------------------------------------------------
(* State after construction *)

NoReturn == [caller |-> "setup", how |-> "none", body |-> None]

Init ==
    /\ resources = DefaultResources
    /\ now = 0
    /\ throttle = None
    /\ data = None
    /\ pc = [c \in Callers |-> IF c = "setup" THEN "start" ELSE "idle"]
    /\ started = [c \in Callers |-> 0]
    /\ state = [s \in Sensors |-> None]
    /\ err = [s \in Sensors |-> "none"]
    /\ returned = NoReturn
    /\ gets = <<>>

InFlight(c) == pc[c] \in {"get", "json"}

----------------------------------------------------------------------------
(* Steps *)

\* the poller call of caller c returns with d in the cache; the caller goes on
\* without suspending: setup adds the entities, a sensor derives its state
Resume(c, d, how, body) ==
    /\ data' = d
    /\ returned' = [caller |-> c, how |-> how, body |-> body]
    /\ started' = [started EXCEPT ![c] = 0]
    /\ IF c = "setup"
       THEN /\ pc' = [pc EXCEPT ![c] = "done"]
            /\ UNCHANGED <<state, err>>
       ELSE LET r == UpdateState(c, state[c], d)
            IN  /\ pc' = [pc EXCEPT ![c] = "idle"]
                /\ state' = [state EXCEPT ![c] = r.state]
                /\ err' = [err EXCEPT ![c] = r.err]

\* caller c calls the throttled UltimakerStatusData.async_update
Poll(c) ==
    IF ThrottlePermits(throttle, now)
    THEN /\ throttle' = PyInt(now)
         /\ gets' = Append(gets, now)
         /\ pc' = [pc EXCEPT ![c] = "get"]
         /\ started' = [started EXCEPT ![c] = now]
         /\ returned' = [caller |-> c, how |-> "pending", body |-> None]
         /\ UNCHANGED <<resources, now, data, state, err>>
    ELSE /\ Resume(c, data, "throttled", None)
         /\ UNCHANGED <<resources, now, throttle, gets>>

\* async_setup_platform: the initial poll
SetupPoll ==
    /\ pc["setup"] = "start"
    /\ Poll("setup")

\* the framework calls UltimakerStatusSensor.async_update of an added entity
SensorUpdate(s) ==
    /\ s \in resources
    /\ pc["setup"] = "done"
    /\ pc[s] = "idle"
    /\ Poll(s)

\* websession.get returns the response (status line and headers) in time
GetResponds(c) ==
    /\ pc[c] = "get"
    /\ pc' = [pc EXCEPT ![c] = "json"]
    /\ UNCHANGED <<resources, now, throttle, data, started, state, err,
                   returned, gets>>

\* async_timeout.timeout(5) expires: asyncio.TimeoutError
GetTimesOut(c) ==
    /\ pc[c] = "get"
    /\ now - started[c] >= TIMEOUT
    /\ Resume(c, CacheAfterFailure, "timeout", None)
    /\ UNCHANGED <<resources, now, throttle, gets>>

\* websession.get raises aiohttp.ClientError or any other Exception
GetFails(c) ==
    /\ pc[c] = "get"
    /\ Resume(c, CacheAfterFailure, "request_error", None)
    /\ UNCHANGED <<resources, now, throttle, gets>>

\* response.json() returns the parsed body
JsonParsed(c, body) ==
    /\ pc[c] = "json"
    /\ Resume(c, CacheAfterParse(body), "parsed", PyList(body))
    /\ UNCHANGED <<resources, now, throttle, gets>>

\* response.json() raises
JsonFails(c) ==
    /\ pc[c] = "json"
    /\ Resume(c, CacheAfterFailure, "parse_error", None)
    /\ UNCHANGED <<resources, now, throttle, gets>>

\* a second passes; the timeout of a pending get fires no later than due
Tick ==
    /\ now < MaxTime
    /\ \A c \in Callers : pc[c] = "get" => now - started[c] < TIMEOUT
    /\ now' = now + 1
    /\ UNCHANGED <<resources, throttle, data, pc, started, state, err,
                   returned, gets>>

Next ==
    \/ Tick
    \/ SetupPoll
    \/ \E s \in Sensors : SensorUpdate(s)
    \/ \E c \in Callers : GetResponds(c)
    \/ \E c \in Callers : GetTimesOut(c)
    \/ \E c \in Callers : GetFails(c)
    \/ \E c \in Callers : \E body \in PollBodies : JsonParsed(c, body)
    \/ \E c \in Callers : JsonFails(c)

Spec == Init /\ [][Next]_vars

\* the clock runs and a timeout that is due fires; nothing obliges the
\* printer to answer, to fail or to go on sending
FairSpec ==
    /\ Spec
    /\ WF_vars(Tick)
    /\ \A c \in Callers : WF_vars(GetTimesOut(c))

----------------------------------------------------------------------------
(* One sensor at a time, with every answer the printer can give *)

\* as Init, with a single resource configured
MapInit ==
    /\ resources \in SingleResources
    /\ now = 0
    /\ throttle = None
    /\ data = None
    /\ pc = [c \in Callers |-> IF c = "setup" THEN "start" ELSE "idle"]
    /\ started = [c \in Callers |-> 0]
    /\ state = [s \in Sensors |-> None]
    /\ err = [s \in Sensors |-> "none"]
    /\ returned = NoReturn
    /\ gets = <<>>

MapNext ==
    \/ Tick
    \/ SetupPoll
    \/ \E s \in Sensors : SensorUpdate(s)
    \/ \E c \in Callers : GetResponds(c)
    \/ \E c \in Callers : GetTimesOut(c)
    \/ \E c \in Callers : GetFails(c)
    \/ \E c \in Callers : \E body \in Bodies : JsonParsed(c, body)
    \/ \E c \in Callers : JsonFails(c)

MapSpec == MapInit /\ [][MapNext]_vars

----------------------------------------------------------------------------
(* Properties *)

\* the last step that touched the cache or a sensor ended a call of caller c
Completed(c) == returned.caller = c /\ returned.how \notin {"none", "pending"}

Failures == {"timeout", "request_error", "parse_error"}

\* the cache holds an array whose first element has a number under key k
FirstHas(k) ==
    /\ data # None
    /\ Len(data[2]) > 0
    /\ k \in DOMAIN data[2][1]
    /\ data[2][1][k] # None

First(k) == data[2][1][k][2]

\* C1: any two GETs issued by UltimakerStatusData.async_update start more
\* than MIN_TIME_BETWEEN_UPDATES seconds apart, however often the sensors'
\* async_update is called
C1_ThrottleInterval ==
    \A i \in DOMAIN gets : \A j \in DOMAIN gets :
        i < j => gets[j] - gets[i] > MIN_TIME_BETWEEN_UPDATES

\* a third GET has been issued and a sensor's call has just been throttled
C1_Witness ==
    /\ Len(gets) = 3
    /\ returned.how = "throttled"
    /\ returned.caller \in Sensors

\* C2: when a run that was not throttled has finished, latest_data is the
\* body parsed from its response if request and parse succeeded and None if
\* it failed in any way; before any poll latest_data is None
C2_CacheIsLastOutcome ==
    /\ returned.how = "parsed" => data = returned.body
    /\ returned.how \in Failures => data = None
    /\ gets = <<>> => data = None

\* a second poll timed out after the first had delivered a print job
C2_Witness ==
    /\ returned.how = "timeout"
    /\ Len(gets) = 2
    /\ data = None
    /\ state["3dprintactive"] = PyBool(TRUE)

\* C3: a sensor update that finds no data (None) in the cache leaves the
\* sensor's state as it was; the state changes only in a step that leaves a
\* parsed payload in the cache
C3_StaleOnNoData ==
    [][\A s \in Sensors : data' = None => state'[s] = state[s]]_vars

\* a sensor that had derived a value was updated on an empty cache and kept it
C3_Witness ==
    \E s \in Sensors :
        /\ Completed(s)
        /\ data = None
        /\ err[s] = "TypeError"
        /\ state[s] # None

\* C4: after an update of the '3dprintactive' sensor that read an array, its
\* state is the boolean "the array is not empty"; no other sensor's state is
\* ever a boolean
C4_ActiveFlag ==
    /\ Completed("3dprintactive") /\ data # None
           => state["3dprintactive"] = PyBool(Len(data[2]) > 0)
    /\ \A s \in Sensors \ {"3dprintactive"} : state[s][1] # "bool"

\* the active sensor was updated on the idle array a second poll delivered
C4_Witness ==
    /\ Completed("3dprintactive")
    /\ data = PyList(<<>>)
    /\ state["3dprintactive"] = PyBool(FALSE)
    /\ Len(gets) = 2

\* C5: after an update of the '3dprintpercentage' sensor on an array whose
\* first element has time_elapsed E >= 0 and time_total T > 0, the state is
\* the integer min(floor(100 * E / T), 100)
C5_PercentageIsFloor ==
    ( /\ Completed("3dprintpercentage")
      /\ FirstHas("time_elapsed")
      /\ FirstHas("time_total")
      /\ First("time_elapsed") >= 0
      /\ First("time_total") > 0 )
    => state["3dprintpercentage"] =
           PyInt(Min((100 * First("time_elapsed")) \div First("time_total"), 100))

\* hours and minutes of a duration, the hours not wrapped at 24
DurationHM(secs) ==
    TwoDigits(secs \div 3600) \o ":" \o TwoDigits((secs \div 60) % 60)

\* C6: after an update of a time sensor on an array whose first element has
\* its field S >= 0, the state is S as hours and minutes, HH = floor(S / 3600)
\* and MM = floor(S / 60) mod 60, also for 24 hours and more
C6_DurationFormat ==
    /\ ( Completed("3dprinttimeelapsed") /\ FirstHas("time_elapsed") )
           => state["3dprinttimeelapsed"] = PyStr(DurationHM(First("time_elapsed")))
    /\ ( Completed("3dprinttotal") /\ FirstHas("time_total") )
           => state["3dprinttotal"] = PyStr(DurationHM(First("time_total")))

\* C7: every run that issued its GET eventually finishes, whatever the
\* printer does or fails to do (stated for the runs whose timeout falls
\* within the clock's range)
C7_EveryPollEnds ==
    \A c \in Callers :
        (InFlight(c) /\ started[c] + TIMEOUT <= MaxTime) ~> ~InFlight(c)

\* the part of C7 the timeout does cover: no run waits for the response
\* (status line and headers) forever
C7_GetEnds ==
    \A c \in Callers :
        (pc[c] = "get" /\ started[c] + TIMEOUT <= MaxTime) ~> pc[c] # "get"

\* C8: UltimakerStatusSensor.async_update never raises
C8_NeverRaises ==
    \A s \in Sensors : err[s] = "none"

\* the field of the first element a sensor type needs is missing or null
Lacks(s) ==
    \/ s = "3dprinttotal" /\ ~FirstHas("time_total")
    \/ s = "3dprinttimeelapsed" /\ ~FirstHas("time_elapsed")
    \/ s = "3dprintpercentage"
           /\ ~(FirstHas("time_elapsed") /\ FirstHas("time_total"))

\* C9: with the empty array in the cache, or a first element that lacks the
\* field a sensor needs, an update leaves the state of the time and
\* percentage sensors as it was
C9_KeepsLastValue ==
    [][\A s \in Sensors \ {"3dprintactive"} :
          (data' # None /\ Lacks(s)') => state'[s] = state[s]]_vars

\* the print has ended: the total-time sensor was updated on the idle array
\* and still shows the value of the print
C9_Witness ==
    /\ Completed("3dprinttotal")
    /\ data = PyList(<<>>)
    /\ state["3dprinttotal"] = PyStr("01:40")

\* C10: no sensor's throttled call returns, and derives a state from the
\* cache, while a request of another caller is in flight
C10_NoStaleReadDuringPoll ==
    (returned.how = "throttled" /\ returned.caller \in Sensors)
        => \A c \in Callers : ~InFlight(c)

====
